---- MODULE Spec2Model ----
(***************************************************************************)
(* Model of app.py (dwh_table_creator): the start-up choice of the WebHDFS *)
(* client, the upload handler `index` and the mapping handler              *)
(* `columns_input`, run by concurrently served requests against one local  *)
(* temp directory, one remote filesystem and one database catalog.         *)
(***************************************************************************)
EXTENDS Integers, Sequences, FiniteSets, TLC

\* ---------------------------------------------------------------- bounds
\* Number of data rows (after the header line) of a non-empty uploaded file.
MaxRows == 1
\* Largest length of a submitted types_info list.
MaxCols == 2

\* Sizes of an uploaded file, in lines: empty, or a header followed by
\* MaxRows data rows.
LineCounts == {0, MaxRows + 1}
\* Lengths of a submitted columns_info list: absent, or a single value.
ColumnLengths == {0, 1}
\* Lengths of a submitted types_info list: absent, as long as columns_info,
\* or longer.
TypeLengths == {0, 1, MaxCols}

\* ---------------------------------------------------------------- inputs
\* The browser sessions whose requests the server handles concurrently.
Sessions == {"s1", "s2"}
\* Original file names a client may submit, as lists of path components (the
\* empty name is handled apart): a plain name, another spelling of the same
\* file, another file, and a name with a directory part.
FileNames == {<<"a.csv">>, <<".", "a.csv">>, <<"b.csv">>, <<"sub", "a.csv">>}
\* The empty file name.
NoName == <<>>
\* Table names a client may submit (the empty name is handled apart).
TableNames == {"t1", "t2"}

\* The names each session chooses from. Names are interchangeable, so one
\* session keeps to the first names and the other ranges over the names that
\* are equal to, equivalent to or different from them.
FileNamesOf(s) ==
    IF s = "s1" THEN {<<"a.csv">>, <<"sub", "a.csv">>}
    ELSE {<<"a.csv">>, <<".", "a.csv">>, <<"b.csv">>}
TableNamesOf(s) == IF s = "s1" THEN {"t1"} ELSE TableNames

\* Marker for a path that holds no file.
NoFile == <<"no file">>
\* Marker for a session that has not generated a staging directory.
NoDir == <<"no dir">>
\* An hdfs_file_path field that is missing or empty.
NoPath == <<>>
\* An hdfs_file_path a client typed in without having been shown a form.
MadeUpPath == <<"/projects/made_up.csv">>
\* Marker for a session that has not been shown the mapping form.
NoForm == <<>>

\* The bytes session s sends: n lines, the first the header, each line
\* tagged with its sender so that two uploads never carry equal lines.
FileContent(s, n) == [i \in 1..n |-> <<s, i - 1>>]

\* request.form.getlist: a list of n submitted values.
FormList(tag, n) == [i \in 1..n |-> <<tag, i>>]

VARIABLES
    startPc,            \* position of the module-level start-up code
    webhdfs_client,     \* the URL the client is bound to ("none" at first)
    probes,             \* the list_status probes made so far, in order
    pc,                 \* each session's position in the view serving its request
    filename,           \* local_csv_path.filename of the session's upload
    received,           \* the bytes the upload request carried
    df,                 \* the DataFrame read by pd.read_csv (lines, header first)
    hdfs_directory,     \* generated by index; submitted to columns_input
    rendered,           \* the hidden fields of the mapping form shown to each session
    hdfs_file_path,     \* hdfs_file_path submitted to columns_input
    table_name,         \* table_name submitted to columns_input
    columns_info,       \* columns_info submitted to columns_input
    types_info,         \* types_info submitted to columns_input
    delimiter,          \* delimiter submitted to columns_input
    columns_definition, \* columns_definition built by columns_input
    ops,                \* file, HDFS and database calls of the session's current request
    result,             \* how the session's current request ended ("none" while running)
    flash,              \* category of the message the current request flashed
    temp_dir,           \* whether the local directory 'temp' exists
    localFiles,         \* the files of the local temp directory, by path
    remoteDirs,         \* the staging directories that exist on HDFS
    remoteFiles,        \* the file staged under each staging directory
    extTables,          \* external mappings present in SCHEMA_EXTERNAL
    intTables           \* durable tables present in SCHEMA_INTERNAL

startVars == <<startPc, webhdfs_client, probes>>
idxVars == <<filename, received, df>>
formVars == <<hdfs_file_path, table_name, columns_info, types_info, delimiter, columns_definition>>
reqVars == <<ops, result, flash>>
fsVars == <<temp_dir, localFiles, remoteDirs, remoteFiles>>
dbVars == <<extTables, intTables>>
vars == <<startVars, pc, idxVars, hdfs_directory, rendered, formVars, reqVars, fsVars, dbVars>>

\* ------------------------------------------------------- pure functions
\* os.path.join(temp_dir, filename): the raw client name under temp.
local_file_path_shared(fn) == <<"temp", "upload">>
local_file_path(fn) == <<"temp">> \o fn

\* The file a path names when it is opened: "." components name no directory.
IsNotDot(c) == c # "."
Resolve(path) == SelectSeq(path, IsNotDot)

\* The file that open, read_csv, to_csv, write_file and os.remove reach
\* through local_file_path.
LocalFile(fn) == Resolve(local_file_path(fn))

\* Nothing creates a directory under temp, so a path with a directory part
\* has no parent to be created in.
HasParent(file) == Len(file) <= 2

LocalPaths == {LocalFile(fn) : fn \in FileNames}

\* f'/projects/vlgmic_{uuid.uuid4()}': a directory under /projects that no
\* other request generates.
HdfsDirectory(s) == <<"projects", <<"vlgmic", s>> >>

\* The directory all staging directories lie in.
ProjectsDirectory == <<"projects">>

\* Directory d is dir or lies under it.
Under(d, dir) == Len(dir) <= Len(d) /\ SubSeq(d, 1, Len(dir)) = dir

AllDirs == {HdfsDirectory(s) : s \in Sessions}

\* f"{hdfs_directory}/{filename}": the path of the staged file.
HdfsFilePath(dir, fn) == Append(dir, fn)

\* Path `path` names the file called fn in directory d, in any spelling.
NamesFileIn(path, d, fn) ==
    /\ fn # NoName
    /\ Len(path) = Len(d) + 1
    /\ SubSeq(path, 1, Len(d)) = d
    /\ Resolve(path[Len(path)]) = Resolve(fn)

\* delete_file(dir, recursive=True): every staging directory that is dir or
\* lies under it goes, with the file in it; a dir that names a staged file
\* removes that file and leaves its directory; a name that reaches neither
\* (None) removes nothing. names[d] is the name of the file staged in d.
DeleteDirs(dirs, dir) == {d \in dirs : ~Under(d, dir)}
DeleteRecursive(files, names, dir) ==
    [d \in AllDirs |-> IF Under(d, dir) \/ NamesFileIn(dir, d, names[d])
                       THEN NoFile ELSE files[d]]

\* A write of `new` from offset 0 through a descriptor of its own: what the
\* file held beyond the written length stays, and a path unlinked since the
\* open stays absent.
WriteOver(old, new) ==
    IF old = NoFile THEN NoFile
    ELSE new \o SubSeq(old, Len(new) + 1, Len(old))

\* df.to_csv(path, index=False, header=False): the lines without the header.
StripHeader(lines) == Tail(lines)

\* zip(columns_info, types_info): pairs up to the shorter list.
Min(a, b) == IF a < b THEN a ELSE b
Zip(c, t) == [i \in 1..Min(Len(c), Len(t)) |-> <<c[i], t[i]>>]

\* The check of line 151: every field but hdfs_directory must be truthy.
AllDataPassed(p, t, c, ty, d) ==
    p # NoPath /\ t # "" /\ c # <<>> /\ ty # <<>> /\ d # ""

\* Reading the log of calls.
Did(log, name, out) == \E i \in 1..Len(log) : log[i] = <<name, out>>
Attempted(log, name) == \E i \in 1..Len(log) : log[i][1] = name
Times(log, name) == Cardinality({i \in 1..Len(log) : log[i][1] = name})

\* ------------------------------------------------------------ start-up
\* init_webhdfs_client, lines 50-62: where the code goes after each probe.
AfterPrimaryProbe_always_standby(ok) == "probe_standby"
AfterPrimaryProbe(ok) == IF ok THEN "serving" ELSE "probe_standby"
AfterStandbyProbe(ok) == IF ok THEN "serving" ELSE "raised"

Init ==
    /\ startPc = "probe_primary"
    /\ webhdfs_client = "none"
    /\ probes = <<>>
    /\ pc = [s \in Sessions |-> "idle"]
    /\ filename = [s \in Sessions |-> NoName]
    /\ received = [s \in Sessions |-> <<>>]
    /\ df = [s \in Sessions |-> <<>>]
    /\ hdfs_directory = [s \in Sessions |-> NoDir]
    /\ rendered = [s \in Sessions |-> NoForm]
    /\ hdfs_file_path = [s \in Sessions |-> NoPath]
    /\ table_name = [s \in Sessions |-> ""]
    /\ columns_info = [s \in Sessions |-> <<>>]
    /\ types_info = [s \in Sessions |-> <<>>]
    /\ delimiter = [s \in Sessions |-> ""]
    /\ columns_definition = [s \in Sessions |-> <<>>]
    /\ ops = [s \in Sessions |-> <<>>]
    /\ result = [s \in Sessions |-> "none"]
    /\ flash = [s \in Sessions |-> "none"]
    /\ temp_dir = FALSE
    /\ localFiles = [p \in LocalPaths |-> NoFile]
    /\ remoteDirs = {}
    /\ remoteFiles = [d \in AllDirs |-> NoFile]
    /\ extTables = {}
    /\ intTables = {}

requestVars == <<pc, idxVars, hdfs_directory, rendered, formVars, reqVars, fsVars, dbVars>>

\* Lines 51-53: bind a client to the primary URL and probe it.
ProbePrimary ==
    /\ startPc = "probe_primary"
    /\ \E ok \in BOOLEAN :
        /\ probes' = Append(probes, <<"primary", ok>>)
        /\ webhdfs_client' = IF ok THEN "primary" ELSE webhdfs_client
        /\ startPc' = AfterPrimaryProbe(ok)
    /\ UNCHANGED requestVars

\* Lines 54-62 and 66-69: the standby probe; None makes the module raise.
ProbeStandby ==
    /\ startPc = "probe_standby"
    /\ \E ok \in BOOLEAN :
        /\ probes' = Append(probes, <<"standby", ok>>)
        /\ webhdfs_client' = IF ok THEN "standby" ELSE webhdfs_client
        /\ startPc' = AfterStandbyProbe(ok)
    /\ UNCHANGED requestVars

\* app.run is reached only when the module-level code did not raise.
Serving == startPc = "serving"

\* --------------------------------------------------------------- index
\* The view returns with `res`. Its locals (the request's bytes, the data
\* frame) are released; the file name outlives the view as the name of the
\* local file and as the last component of hdfs_file_path.
ReturnFromIndex(s, res) ==
    /\ result' = [result EXCEPT ![s] = res]
    /\ received' = [received EXCEPT ![s] = <<>>]
    /\ df' = [df EXCEPT ![s] = <<>>]
    /\ pc' = [pc EXCEPT ![s] = IF res = "form" THEN "form" ELSE "index_done"]

\* Line 92: os.path.exists(temp_dir) decides whether line 93 runs.
AfterExists(exists) == IF exists THEN "save" ELSE "makedirs"

\* Lines 74-92: validate the file part, then test whether temp exists.
IndexPost(s) ==
    /\ Serving
    /\ pc[s] = "idle"
    /\ \/ \* 'csv_file' not in request.files, or an empty file name
          /\ flash' = [flash EXCEPT ![s] = "danger"]
          /\ ReturnFromIndex(s, "redirect_index")
          /\ UNCHANGED filename
       \/ \E fn \in FileNamesOf(s), n \in LineCounts :
          /\ filename' = [filename EXCEPT ![s] = fn]
          /\ received' = [received EXCEPT ![s] = FileContent(s, n)]
          /\ pc' = [pc EXCEPT ![s] = AfterExists(temp_dir)]
          /\ UNCHANGED <<flash, result, df>>
    /\ UNCHANGED <<startVars, rendered, hdfs_directory, formVars, ops, fsVars, dbVars>>

\* Line 93: os.makedirs(temp_dir), outside any try. When another request
\* created the directory since line 92 it raises FileExistsError, which
\* leaves the view as an unhandled error before anything is saved.
OsMakedirs(s) ==
    /\ pc[s] = "makedirs"
    /\ IF temp_dir
       THEN /\ filename' = [filename EXCEPT ![s] = NoName]
            /\ ReturnFromIndex(s, "error500")
            /\ UNCHANGED temp_dir
       ELSE /\ temp_dir' = TRUE
            /\ pc' = [pc EXCEPT ![s] = "save"]
            /\ UNCHANGED <<filename, result, received, df>>
    /\ UNCHANGED <<startVars, rendered, hdfs_directory, formVars, ops, flash, localFiles,
                   remoteDirs, remoteFiles, dbVars>>

\* Lines 96-97, first half of save: open(local_file_path, "wb") creates the
\* file or truncates the one that is there. It is outside any try: with no
\* directory to create the file in it raises, and the view ends as an
\* unhandled error with nothing saved.
SaveOpen(s) ==
    /\ pc[s] = "save"
    /\ IF HasParent(LocalFile(filename[s]))
       THEN /\ localFiles' = [localFiles EXCEPT ![LocalFile(filename[s])] = <<>>]
            /\ pc' = [pc EXCEPT ![s] = "save_write"]
            /\ UNCHANGED <<filename, result, received, df>>
       ELSE /\ filename' = [filename EXCEPT ![s] = NoName]
            /\ ReturnFromIndex(s, "error500")
            /\ UNCHANGED localFiles
    /\ UNCHANGED <<startVars, rendered, hdfs_directory, formVars, ops, flash, temp_dir,
                   remoteDirs, remoteFiles, dbVars>>

\* Line 97, second half of save: copy the request's bytes into the open file.
SaveWrite(s) ==
    /\ pc[s] = "save_write"
    /\ localFiles' = [localFiles EXCEPT ![LocalFile(filename[s])] =
                         WriteOver(@, received[s])]
    /\ pc' = [pc EXCEPT ![s] = "read_csv"]
    /\ UNCHANGED <<startVars, rendered, idxVars, hdfs_directory, formVars, reqVars, temp_dir,
                   remoteDirs, remoteFiles, dbVars>>

\* Lines 100-102 and 105-108: pd.read_csv of the local path; a missing or
\* empty file raises inside the try.
ReadCsv(s) ==
    /\ pc[s] = "read_csv"
    /\ LET c == localFiles[LocalFile(filename[s])] IN
       IF c = NoFile \/ c = <<>>
       THEN /\ flash' = [flash EXCEPT ![s] = "danger"]
            /\ ReturnFromIndex(s, "redirect_index")
       ELSE /\ df' = [df EXCEPT ![s] = c]
            /\ pc' = [pc EXCEPT ![s] = "to_csv"]
            /\ UNCHANGED <<flash, result, received>>
    /\ UNCHANGED <<startVars, rendered, filename, hdfs_directory, formVars, ops, fsVars, dbVars>>

\* Line 103, first half of to_csv: open(local_file_path, "w") creates the
\* file or truncates the one that is there.
ToCsvOpen(s) ==
    /\ pc[s] = "to_csv"
    /\ localFiles' = [localFiles EXCEPT ![LocalFile(filename[s])] = <<>>]
    /\ pc' = [pc EXCEPT ![s] = "to_csv_write"]
    /\ UNCHANGED <<startVars, rendered, idxVars, hdfs_directory, formVars, reqVars, temp_dir,
                   remoteDirs, remoteFiles, dbVars>>

\* Line 103, second half of to_csv: write the frame without its header.
ToCsvWrite(s) ==
    /\ pc[s] = "to_csv_write"
    /\ localFiles' = [localFiles EXCEPT ![LocalFile(filename[s])] =
                         WriteOver(@, StripHeader(df[s]))]
    /\ pc' = [pc EXCEPT ![s] = "mkdirs"]
    /\ UNCHANGED <<startVars, rendered, idxVars, hdfs_directory, formVars, reqVars, temp_dir,
                   remoteDirs, remoteFiles, dbVars>>

\* Lines 111-112: generate the directory name and create it, outside any try:
\* a raising mkdirs leaves the view as an unhandled error.
Mkdirs(s) ==
    /\ pc[s] = "mkdirs"
    /\ hdfs_directory' = [hdfs_directory EXCEPT ![s] = HdfsDirectory(s)]
    /\ \/ /\ ops' = [ops EXCEPT ![s] = Append(@, <<"mkdirs", "ok">>)]
          /\ remoteDirs' = remoteDirs \cup {HdfsDirectory(s)}
          /\ pc' = [pc EXCEPT ![s] = "upload_file"]
          /\ UNCHANGED <<result, received, df>>
       \/ /\ ops' = [ops EXCEPT ![s] = Append(@, <<"mkdirs", "raise">>)]
          /\ ReturnFromIndex(s, "error500")
          /\ UNCHANGED remoteDirs
    /\ UNCHANGED <<startVars, rendered, filename, formVars, flash, temp_dir, localFiles,
                   remoteFiles, dbVars>>

\* Lines 122-124: the except branch of the upload flashes the failure, then
\* goes on to delete the directory.
UploadExcept(s, failedOp) ==
    /\ ops' = [ops EXCEPT ![s] = Append(@, <<failedOp, "raise">>)]
    /\ flash' = [flash EXCEPT ![s] = "danger"]
    /\ pc' = [pc EXCEPT ![s] = "delete_after_failure"]
    /\ UNCHANGED <<result, received, df, remoteDirs, remoteFiles>>

\* Lines 118-119: phase one, upload_file, returns the data node URL. A falsy
\* return skips write_file and raises nothing, so control reaches line 131.
AfterUploadFile(out) == IF out = "ok" THEN "write_file" ELSE "os_remove"

UploadFile(s) ==
    /\ pc[s] = "upload_file"
    /\ \/ \E out \in {"ok", "falsy"} :
          /\ ops' = [ops EXCEPT ![s] = Append(@, <<"upload_file", out>>)]
          /\ pc' = [pc EXCEPT ![s] = AfterUploadFile(out)]
          /\ UNCHANGED <<flash, result, received, df, remoteDirs, remoteFiles>>
       \/ UploadExcept(s, "upload_file")
    /\ UNCHANGED <<startVars, rendered, filename, hdfs_directory, formVars, temp_dir, localFiles,
                   dbVars>>

\* Lines 120-121: phase two, write_file, sends the bytes the local path holds
\* at that moment; it cannot succeed when the local file is gone. The file it
\* wrote lies in its directory, so the directory exists afterwards.
WriteFile(s) ==
    /\ pc[s] = "write_file"
    /\ LET c == localFiles[LocalFile(filename[s])] IN
       \/ /\ c # NoFile
          /\ ops' = [ops EXCEPT ![s] = Append(@, <<"write_file", "ok">>)]
          /\ remoteFiles' = [remoteFiles EXCEPT ![hdfs_directory[s]] = c]
          /\ remoteDirs' = remoteDirs \cup {hdfs_directory[s]}
          /\ pc' = [pc EXCEPT ![s] = "os_remove"]
          /\ UNCHANGED <<flash, result, received, df>>
       \/ UploadExcept(s, "write_file")
    /\ UNCHANGED <<startVars, rendered, filename, hdfs_directory, formVars, temp_dir, localFiles,
                   dbVars>>

\* Line 115: hdfs_file_path = f"{hdfs_directory}/{filename}". The file staged
\* in a staging directory carries the file name of the upload that generated
\* the directory.
StagedNames ==
    [d \in AllDirs |-> filename[CHOOSE s \in Sessions : HdfsDirectory(s) = d]]

\* Lines 126-128: delete_file is called unguarded inside the except branch:
\* if it raises, the exception leaves the view and the redirect of line 128
\* is never returned.
DeleteAfterFailure(s) ==
    /\ pc[s] = "delete_after_failure"
    /\ \/ /\ ops' = [ops EXCEPT ![s] = Append(@, <<"delete_file", "ok">>)]
          /\ remoteDirs' = DeleteDirs(remoteDirs, hdfs_directory[s])
          /\ remoteFiles' = DeleteRecursive(remoteFiles, StagedNames, hdfs_directory[s])
          /\ ReturnFromIndex(s, "redirect_index")
       \/ /\ ops' = [ops EXCEPT ![s] = Append(@, <<"delete_file", "raise">>)]
          /\ ReturnFromIndex(s, "error500")
          /\ UNCHANGED <<remoteDirs, remoteFiles>>
    /\ UNCHANGED <<startVars, rendered, filename, hdfs_directory, formVars, flash, temp_dir,
                   localFiles, dbVars>>

\* Lines 131-135: os.remove of the local path (unguarded), then the mapping
\* form with the hidden fields hdfs_directory and hdfs_file_path.
RemoveLocal(s) ==
    /\ pc[s] = "os_remove"
    /\ LET p == LocalFile(filename[s]) IN
       IF localFiles[p] = NoFile
       THEN /\ ops' = [ops EXCEPT ![s] = Append(@, <<"os_remove", "raise">>)]
            /\ ReturnFromIndex(s, "error500")
            /\ UNCHANGED <<localFiles, rendered>>
       ELSE /\ ops' = [ops EXCEPT ![s] = Append(@, <<"os_remove", "ok">>)]
            /\ localFiles' = [localFiles EXCEPT ![p] = NoFile]
            /\ rendered' = [rendered EXCEPT ![s] =
                   <<hdfs_directory[s], HdfsFilePath(hdfs_directory[s], filename[s])>>]
            /\ ReturnFromIndex(s, "form")
    /\ UNCHANGED <<startVars, filename, hdfs_directory, formVars, flash, temp_dir,
                   remoteDirs, remoteFiles, dbVars>>

\* ------------------------------------------------------- columns_input
\* The view returns with `res`: its locals (the submitted fields and the
\* definition built from them) are released; the table name stays
\* visible in the flashed message or in the /success URL.
ReturnFromColumns(s, res) ==
    /\ result' = [result EXCEPT ![s] = res]
    /\ hdfs_directory' = [hdfs_directory EXCEPT ![s] = NoDir]
    /\ hdfs_file_path' = [hdfs_file_path EXCEPT ![s] = NoPath]
    /\ columns_info' = [columns_info EXCEPT ![s] = <<>>]
    /\ types_info' = [types_info EXCEPT ![s] = <<>>]
    /\ delimiter' = [delimiter EXCEPT ![s] = ""]
    /\ columns_definition' = [columns_definition EXCEPT ![s] = <<>>]
    /\ pc' = [pc EXCEPT ![s] = "columns_done"]

\* The sessions that have been shown the mapping form (line 134).
Shown == {o \in Sessions : rendered[o] # NoForm}

\* What a client may submit as hdfs_directory (line 144): nothing, either
\* hidden field of a form that was rendered (the staging directory or the
\* path of the file staged in it), or any other path, such as the directory
\* above the staging directories; a uuid4 name is known to clients through a
\* rendered form only.
SubmittedDirectories ==
    {NoDir, ProjectsDirectory} \cup {rendered[o][1] : o \in Shown}
                               \cup {rendered[o][2] : o \in Shown}

\* What a client may submit as hdfs_file_path (line 143): nothing, or the
\* hidden field of the form it was shown, or a path it made up when it was
\* shown none.
SubmittedPaths(s) ==
    {NoPath, IF s \in Shown THEN rendered[s][2] ELSE MadeUpPath}

\* Lines 143-156: the mapping request of a session, sent after it was shown
\* the form or without any upload before it (what columns_input does depends
\* on the submitted fields only; each session sends one mapping). Read the
\* fields, reject when one of the five tested fields is missing, build
\* columns_definition. hdfs_directory is not tested and the lengths of the two
\* lists are never compared.
ColumnsPost(s) ==
    /\ Serving
    /\ pc[s] \in {"idle", "form"}
    /\ \/ /\ \E p \in SubmittedPaths(s), t \in TableNamesOf(s) \cup {""},
                nc \in ColumnLengths, nt \in TypeLengths, d \in {"", ","} :
                ~AllDataPassed(p, t, FormList("col", nc), FormList("type", nt), d)
          /\ ops' = [ops EXCEPT ![s] = <<>>]
          /\ flash' = [flash EXCEPT ![s] = "danger"]
          /\ ReturnFromColumns(s, "redirect_index")
          /\ UNCHANGED table_name
       \/ \E dir \in SubmittedDirectories, p \in SubmittedPaths(s),
             t \in TableNamesOf(s) \cup {""}, nc \in ColumnLengths, nt \in TypeLengths,
             d \in {"", ","} :
            LET c == FormList("col", nc)
                ty == FormList("type", nt)
            IN  /\ AllDataPassed(p, t, c, ty, d)
                /\ hdfs_directory' = [hdfs_directory EXCEPT ![s] = dir]
                /\ hdfs_file_path' = [hdfs_file_path EXCEPT ![s] = p]
                /\ table_name' = [table_name EXCEPT ![s] = t]
                /\ columns_info' = [columns_info EXCEPT ![s] = c]
                /\ types_info' = [types_info EXCEPT ![s] = ty]
                /\ delimiter' = [delimiter EXCEPT ![s] = d]
                /\ columns_definition' = [columns_definition EXCEPT ![s] = Zip(c, ty)]
                /\ ops' = [ops EXCEPT ![s] = <<>>]
                /\ flash' = [flash EXCEPT ![s] = "none"]
                /\ result' = [result EXCEPT ![s] = "none"]
                /\ pc' = [pc EXCEPT ![s] = "connect"]
    /\ UNCHANGED <<startVars, rendered, idxVars, fsVars, dbVars>>

\* The except branches of lines 163-166, 172-175 and 181-184.
StepFailed(s, log) ==
    /\ ops' = [ops EXCEPT ![s] = @ \o log]
    /\ flash' = [flash EXCEPT ![s] = "danger"]
    /\ result' = [result EXCEPT ![s] = "redirect_index"]
    /\ hdfs_directory' = [hdfs_directory EXCEPT ![s] = NoDir]
    /\ hdfs_file_path' = [hdfs_file_path EXCEPT ![s] = NoPath]
    /\ columns_info' = [columns_info EXCEPT ![s] = <<>>]
    /\ types_info' = [types_info EXCEPT ![s] = <<>>]
    /\ delimiter' = [delimiter EXCEPT ![s] = ""]
    /\ columns_definition' = [columns_definition EXCEPT ![s] = <<>>]

\* Where columns_input goes after each call of its try blocks.
AfterConnect(ok) == IF ok THEN "create_external" ELSE "columns_done"
AfterCreateExternal(ok) == IF ok THEN "create_table" ELSE "columns_done"
AfterCreateTable_drops_anyway(ok) == "drop_external"
AfterCreateTable(ok) == IF ok THEN "drop_external" ELSE "columns_done"
AfterDropExternal(ok) == IF ok THEN "cleanup" ELSE "columns_done"

\* CREATE EXTERNAL TABLE (lines 233-251) needs the name to be free.
CanCreateExternal(ext, t) == t \notin ext
\* CREATE TABLE ... AS SELECT * FROM the mapping (lines 254-262) needs the
\* mapping to exist and the destination name to be free.
CanCreateTable(ext, int, t) == t \in ext /\ t \notin int
\* DROP EXTERNAL TABLE IF EXISTS (lines 265-268).
DropMapping_keeps(ext, t) == ext
DropMapping(ext, t) == ext \ {t}

\* Line 160 (and 163-166): open the database connection.
Connect(s) ==
    /\ pc[s] = "connect"
    /\ \/ /\ StepFailed(s, << <<"connect", "raise">> >>)
          /\ pc' = [pc EXCEPT ![s] = AfterConnect(FALSE)]
       \/ /\ ops' = [ops EXCEPT ![s] = Append(@, <<"connect", "ok">>)]
          /\ pc' = [pc EXCEPT ![s] = AfterConnect(TRUE)]
          /\ UNCHANGED <<flash, result, hdfs_directory, hdfs_file_path, columns_info,
                         types_info, delimiter, columns_definition>>
    /\ UNCHANGED <<startVars, rendered, idxVars, table_name, fsVars, dbVars>>

\* Lines 161-166: create the external mapping over hdfs_file_path.
CreateExternal(s) ==
    /\ pc[s] = "create_external"
    /\ \/ /\ StepFailed(s, << <<"create_external", "raise">> >>)
          /\ pc' = [pc EXCEPT ![s] = AfterCreateExternal(FALSE)]
          /\ UNCHANGED extTables
       \/ /\ CanCreateExternal(extTables, table_name[s])
          /\ ops' = [ops EXCEPT ![s] = Append(@, <<"create_external", "ok">>)]
          /\ extTables' = extTables \cup {table_name[s]}
          /\ pc' = [pc EXCEPT ![s] = AfterCreateExternal(TRUE)]
          /\ UNCHANGED <<flash, result, hdfs_directory, hdfs_file_path, columns_info,
                         types_info, delimiter, columns_definition>>
    /\ UNCHANGED <<startVars, rendered, idxVars, table_name, fsVars, intTables>>

\* Lines 169-175: materialize the durable table from the mapping.
CreateTableFromExternal(s) ==
    /\ pc[s] = "create_table"
    /\ \/ /\ StepFailed(s, << <<"create_table", "raise">> >>)
          /\ pc' = [pc EXCEPT ![s] = AfterCreateTable(FALSE)]
          /\ UNCHANGED intTables
       \/ /\ CanCreateTable(extTables, intTables, table_name[s])
          /\ ops' = [ops EXCEPT ![s] = Append(@, <<"create_table", "ok">>)]
          /\ intTables' = intTables \cup {table_name[s]}
          /\ pc' = [pc EXCEPT ![s] = AfterCreateTable(TRUE)]
          /\ UNCHANGED <<flash, result, hdfs_directory, hdfs_file_path, columns_info,
                         types_info, delimiter, columns_definition>>
    /\ UNCHANGED <<startVars, rendered, idxVars, table_name, fsVars, extTables>>

\* Lines 178-184: drop the external mapping.
DropExternal(s) ==
    /\ pc[s] = "drop_external"
    /\ \/ /\ StepFailed(s, << <<"drop_external", "raise">> >>)
          /\ pc' = [pc EXCEPT ![s] = AfterDropExternal(FALSE)]
          /\ UNCHANGED extTables
       \/ /\ ops' = [ops EXCEPT ![s] = Append(@, <<"drop_external", "ok">>)]
          /\ extTables' = DropMapping(extTables, table_name[s])
          /\ pc' = [pc EXCEPT ![s] = AfterDropExternal(TRUE)]
          /\ UNCHANGED <<flash, result, hdfs_directory, hdfs_file_path, columns_info,
                         types_info, delimiter, columns_definition>>
    /\ UNCHANGED <<startVars, rendered, idxVars, table_name, fsVars, intTables>>

\* Lines 186-192: delete the directory the form field named, unguarded, then
\* redirect to /success. A raising delete_file leaves the view before the
\* redirect is returned.
Cleanup(s) ==
    /\ pc[s] = "cleanup"
    /\ \/ /\ ops' = [ops EXCEPT ![s] = Append(@, <<"delete_file", "ok">>)]
          /\ remoteDirs' = DeleteDirs(remoteDirs, hdfs_directory[s])
          /\ remoteFiles' = DeleteRecursive(remoteFiles, StagedNames, hdfs_directory[s])
          /\ ReturnFromColumns(s, "redirect_success")
       \/ /\ ops' = [ops EXCEPT ![s] = Append(@, <<"delete_file", "raise">>)]
          /\ ReturnFromColumns(s, "error500")
          /\ UNCHANGED <<remoteDirs, remoteFiles>>
    /\ UNCHANGED <<startVars, rendered, idxVars, table_name, flash, temp_dir,
                   localFiles, dbVars>>

\* ------------------------------------------------------- specification
Next ==
    \/ ProbePrimary
    \/ ProbeStandby
    \/ \E s \in Sessions : IndexPost(s)
    \/ \E s \in Sessions : OsMakedirs(s)
    \/ \E s \in Sessions : SaveOpen(s)
    \/ \E s \in Sessions : SaveWrite(s)
    \/ \E s \in Sessions : ReadCsv(s)
    \/ \E s \in Sessions : ToCsvOpen(s)
    \/ \E s \in Sessions : ToCsvWrite(s)
    \/ \E s \in Sessions : Mkdirs(s)
    \/ \E s \in Sessions : UploadFile(s)
    \/ \E s \in Sessions : WriteFile(s)
    \/ \E s \in Sessions : DeleteAfterFailure(s)
    \/ \E s \in Sessions : RemoveLocal(s)
    \/ \E s \in Sessions : ColumnsPost(s)
    \/ \E s \in Sessions : Connect(s)
    \/ \E s \in Sessions : CreateExternal(s)
    \/ \E s \in Sessions : CreateTableFromExternal(s)
    \/ \E s \in Sessions : DropExternal(s)
    \/ \E s \in Sessions : Cleanup(s)

Spec == Init /\ [][Next]_vars

\* ----------------------------------------------------------- properties
\* Which request the log, the result and the flash of a session belong to.
InColumns(s) ==
    pc[s] \in {"connect", "create_external", "create_table", "drop_external", "cleanup",
               "columns_done"}
IndexEnded(s) == pc[s] \in {"index_done", "form"}
ColumnsEnded(s) == pc[s] = "columns_done"

\* All three database sub-steps of columns_input succeeded in this request.
Step5Succeeded(s) ==
    /\ Did(ops[s], "create_external", "ok")
    /\ Did(ops[s], "create_table", "ok")
    /\ Did(ops[s], "drop_external", "ok")

\* C1: a columns_input request whose columns_info and types_info differ in
\* length makes no database or remote-filesystem call.
C1_MismatchRejectedBeforeAnyCall ==
    \A s \in Sessions :
        (InColumns(s) /\ Len(columns_info[s]) # Len(types_info[s])) => ops[s] = <<>>

\* The staging directory index created for session s and showed in its form.
StagingDirectory(s) == rendered[s][1]

\* C2: for a session whose staging directory was created by its upload and
\* whose mapping was then submitted, once columns_input has completed the
\* staging directory is gone exactly when the three database sub-steps all
\* succeeded, and after a failed sub-step no delete is attempted and the
\* directory remains.
C2_DirGoneIffStep5Succeeded ==
    \A s \in Shown :
        ColumnsEnded(s) =>
            /\ (StagingDirectory(s) \notin remoteDirs) <=> Step5Succeeded(s)
            /\ ~Step5Succeeded(s) =>
                  (~Attempted(ops[s], "delete_file")
                      /\ StagingDirectory(s) \in remoteDirs)

\* The step in which columns_input of session s returns the /success redirect.
RedirectsToSuccess(s) ==
    result[s] # "redirect_success" /\ result'[s] = "redirect_success"

\* C3 as stated: at the moment columns_input redirects to /success for table
\* T, the external mapping T is absent and the durable table T is present.
C3_SuccessMeansMappingGone ==
    [][\A s \in Sessions :
          RedirectsToSuccess(s) =>
              (table_name[s] \notin extTables' /\ table_name[s] \in intTables')]_vars

\* C3 amended: at the moment columns_input redirects to /success for table T,
\* the durable table T is present and the request has dropped its mapping; a
\* mapping T is present then only if another request for the same table name
\* created it again after that drop.
C3_SuccessMeansOwnMappingDropped ==
    [][\A s \in Sessions :
          RedirectsToSuccess(s) =>
              /\ table_name[s] \in intTables'
              /\ Did(ops'[s], "drop_external", "ok")
              /\ table_name[s] \in extTables' =>
                    \E o \in Sessions \ {s} :
                        /\ InColumns(o)
                        /\ table_name[o] = table_name[s]
                        /\ Did(ops[o], "create_external", "ok")
                        /\ ~Did(ops[o], "drop_external", "ok")]_vars

C3_Witness ==
    \E s \in Sessions :
        /\ result[s] = "redirect_success"
        /\ table_name[s] \notin extTables
        /\ table_name[s] \in intTables

\* The fixed order of the calls of columns_input.
ColumnsOrder ==
    <<"connect", "create_external", "create_table", "drop_external", "delete_file">>

\* The calls were made in the fixed order and only the last one may have failed.
OrderedUntilFirstFailure(log) ==
    /\ Len(log) <= Len(ColumnsOrder)
    /\ \A i \in 1..Len(log) :
          /\ log[i][1] = ColumnsOrder[i]
          /\ i < Len(log) => log[i][2] = "ok"

\* A database sub-step of this request failed.
Step5Failed(s) ==
    \E name \in {"connect", "create_external", "create_table", "drop_external"} :
        Did(ops[s], name, "raise")

\* What C4 says of every columns_input request, apart from its last sentence.
C4_OrderAndAbort(s) ==
    InColumns(s) =>
        /\ OrderedUntilFirstFailure(ops[s])
        /\ Step5Failed(s) =>
              (ColumnsEnded(s) /\ flash[s] = "danger" /\ result[s] = "redirect_index")
        /\ (Did(ops[s], "create_external", "ok") /\ ~Did(ops[s], "drop_external", "ok"))
              => table_name[s] \in extTables
        /\ Did(ops[s], "create_table", "ok") => table_name[s] \in intTables

MaterializeFailedAfterMapping(s) ==
    /\ ColumnsEnded(s)
    /\ Did(ops[s], "create_external", "ok")
    /\ Did(ops[s], "create_table", "raise")

\* C4 as stated: the sub-steps run in order, the first failure ends the
\* request with a danger flash and a redirect, nothing is undone; and when
\* materialize fails after the mapping was created, the request ends with the
\* mapping present and the durable table absent.
C4_FailedMaterializeLeavesNoTable ==
    \A s \in Sessions :
        /\ C4_OrderAndAbort(s)
        /\ MaterializeFailedAfterMapping(s) =>
              (table_name[s] \in extTables /\ table_name[s] \notin intTables)

\* C4 amended: as C4, but when materialize fails after the mapping was created
\* the request ends with the mapping present and without having created the
\* durable table: a durable table of that name is present only if another
\* request for the same table name had materialized it before.
C4_FailedMaterializeCreatesNoTable ==
    \A s \in Sessions :
        /\ C4_OrderAndAbort(s)
        /\ MaterializeFailedAfterMapping(s) =>
              /\ table_name[s] \in extTables
              /\ table_name[s] \in intTables =>
                    \E o \in Sessions \ {s} :
                        /\ InColumns(o)
                        /\ table_name[o] = table_name[s]
                        /\ Did(ops[o], "create_table", "ok")

C4_Witness ==
    \E s \in Sessions :
        /\ MaterializeFailedAfterMapping(s)
        /\ flash[s] = "danger"
        /\ result[s] = "redirect_index"
        /\ table_name[s] \in extTables
        /\ table_name[s] \notin intTables

\* C5: a failing delete_file never changes how the request ends: the upload
\* request still redirects to the upload form, columns_input to /success.
C5_DeleteFailureNeverAborts ==
    \A s \in Sessions :
        /\ (IndexEnded(s) /\ Did(ops[s], "delete_file", "raise"))
              => result[s] = "redirect_index"
        /\ (ColumnsEnded(s) /\ Did(ops[s], "delete_file", "raise"))
              => result[s] = "redirect_success"

\* C6: the local copy is removed and the mapping form is shown only by upload
\* requests in which both phases of the upload completed.
C6_LocalCopyRemovedOnlyAfterUpload ==
    \A s \in Sessions :
        (~InColumns(s) /\ (Did(ops[s], "os_remove", "ok") \/ pc[s] = "form")) =>
            (Did(ops[s], "upload_file", "ok") /\ Did(ops[s], "write_file", "ok"))

\* A phase of the upload failed in this upload request.
UploadPhaseFailed(s) ==
    \/ Did(ops[s], "upload_file", "raise")
    \/ Did(ops[s], "upload_file", "falsy")
    \/ Did(ops[s], "write_file", "raise")

\* C7: an upload request in which a phase of the upload failed attempts to
\* delete the directory it created and does not show the mapping form.
C7_UploadFailureDeletesDirectory ==
    \A s \in Sessions :
        (IndexEnded(s) /\ UploadPhaseFailed(s)) =>
            (Attempted(ops[s], "delete_file") /\ pc[s] # "form")

\* The operations C8 lists.
GuardedOps ==
    {"mkdirs", "upload_file", "write_file", "connect", "create_external",
     "create_table", "drop_external"}

\* C8: a request in which one of the listed operations failed ends with a
\* flashed message and a redirect to the upload form, and made the failed call
\* once.
C8_EveryFailureCaught ==
    \A s \in Sessions :
        \A name \in GuardedOps :
            ((IndexEnded(s) \/ ColumnsEnded(s))
                /\ (Did(ops[s], name, "raise") \/ Did(ops[s], name, "falsy")))
            => /\ flash[s] = "danger"
               /\ result[s] = "redirect_index"
               /\ Times(ops[s], name) = 1

\* What the probes made so far allow the start-up code to have done.
C9_Binding ==
    /\ Len(probes) <= 2
    /\ Len(probes) >= 1 => probes[1][1] = "primary"
    /\ Len(probes) = 2 => (probes[1][2] = FALSE /\ probes[2][1] = "standby")
    /\ startPc = "probe_primary" <=> probes = <<>>
    /\ startPc = "probe_standby" => Len(probes) = 1
    /\ webhdfs_client = "primary" <=> (probes # <<>> /\ probes[1][2])
    /\ webhdfs_client = "standby" <=> (Len(probes) = 2 /\ probes[2][2])
    /\ startPc = "raised" <=> (Len(probes) = 2 /\ ~probes[2][2])
    /\ startPc = "serving" <=> webhdfs_client # "none"
    /\ startPc # "serving" => \A s \in Sessions : pc[s] = "idle"

\* C9: the primary URL is probed first and the standby only after the
\* primary probe failed; the client is bound to the first URL whose
\* probe responded; with no response the process raises and serves no
\* request; and no step of a serving process rebinds webhdfs_client.
C9_EndpointChosenOnceInOrder ==
    [][C9_Binding' /\ (Serving => webhdfs_client' = webhdfs_client)]_vars

C9_Witness ==
    /\ probes = << <<"primary", FALSE>>, <<"standby", TRUE>> >>
    /\ webhdfs_client = "standby"
    /\ \E s \in Sessions : ColumnsEnded(s)

\* The upload request of session s staged something else than the
\* header-stripped file it received (an empty file has nothing to stage).
StagedForeignContent(s) ==
    /\ pc[s] = "os_remove"
    /\ Did(ops[s], "write_file", "ok")
    /\ \/ received[s] = <<>>
       \/ /\ remoteFiles[hdfs_directory[s]] # NoFile
          /\ remoteFiles[hdfs_directory[s]] # StripHeader(received[s])

\* C10 as stated: an upload request stages content other than its own
\* header-stripped file only if another session uploaded under the same file
\* name.
C10_OnlySameNameInterferes ==
    \A s \in Sessions :
        StagedForeignContent(s) =>
            \E o \in Sessions \ {s} : filename[o] = filename[s]

\* C10 amended: an upload request stages content other than its own
\* header-stripped file only if another session uploaded under a file name
\* that names the same file, be it the same name or another spelling of it.
C10_OnlySameFileInterferes ==
    \A s \in Sessions :
        StagedForeignContent(s) =>
            \E o \in Sessions \ {s} :
                filename[o] # NoName /\ Resolve(filename[o]) = Resolve(filename[s])

C10_Witness ==
    \E s \in Sessions :
        /\ StagedForeignContent(s)
        /\ received[s] # <<>>
        /\ hdfs_directory[s] = HdfsDirectory(s)
        /\ \E o \in Sessions \ {s} :
              /\ filename[o] # filename[s]
              /\ Resolve(filename[o]) = Resolve(filename[s])
====
